---- MODULE Spec2Model ----
(***************************************************************************)
(* State-machine model of app.py: the ANEEL fetcher with its retry         *)
(* decorator, the three dataset loaders with their on-disk snapshots, the  *)
(* coordinate normaliser, the regional filter and the page script main().  *)
(*                                                                         *)
(* A DataFrame is a sequence of rows.  A cell is a tagged record: NaN (a   *)
(* null), Float(v) (a number, v in units of 10^-Scale) or Str(s) (a text,  *)
(* s a sequence of one-character strings).  A call's outcome is Ok(df) or  *)
(* Raise(e).                                                               *)
(***************************************************************************)
EXTENDS Integers, Sequences, FiniteSets, TLC

VARIABLES
    arg,            \* the argument of the function under test
    ret,            \* the outcome of the last call, NoRet before any
    aneelCache,     \* the file Config.ANEEL_CACHE
    franchiseData,  \* the file Config.FRANCHISE_DATA
    franchiseInput, \* the file Config.FRANCHISE_INPUT
    usinaInput,     \* the file Config.USINA_INPUT
    persisted,      \* history: the rows of the first franchise snapshot written
    session,        \* st.session_state.data of the browser session, NoData before
    initMemo,       \* what @st.cache_resource holds for init_data
    usinaMemo,      \* what @st.cache_data holds for load_usina_data
    layers          \* the three checkboxes of the sidebar

diskVars == <<aneelCache, franchiseData, franchiseInput, usinaInput>>
pageVars == <<session, initMemo, usinaMemo, layers>>
vars == <<arg, ret, aneelCache, franchiseData, franchiseInput, usinaInput,
          persisted, session, initMemo, usinaMemo, layers>>

\* -------------------------------------------------------------- bounds
\* Decimal places a modelled number keeps.
Scale == 4
\* Longest DataFrame handed to process_coordinates.
MaxNormRows == 2
\* Longest DataFrame handed to filter_usinas_by_region.
MaxFilterRows == 2
\* Longest source file (franquias.csv, dados_com_geolocalizacao.csv), in rows.
MaxCsvRows == 2
\* Endpoint answers drawn for one fetch_aneel call (one more than it may use).
ScriptLen == 4
\* Longest record set the endpoint answers with.
MaxApiRows == 2

RECURSIVE Pow(_, _)
Pow(b, n) == IF n = 0 THEN 1 ELSE b * Pow(b, n - 1)

\* One degree, in the model's units.
Unit == Pow(10, Scale)

\* All sequences over S of length at most n.
SeqsUpTo(S, n) == UNION {[1..k -> S] : k \in 0..n}

\* -------------------------------------------------------------- values
NaN == [k |-> "nan"]
Float(v) == [k |-> "num", v |-> v]
Str(s) == [k |-> "str", s |-> s]
\* A key a record does not have at all (DataFrame(records) has the column only
\* if some record has the key, and fills the others with NaN).
Absent == [k |-> "absent"]

IsNull(c) == c.k \in {"nan", "absent"}
IsFloat(c) == c.k = "num"
IsStr(c) == c.k = "str"

NoRet == [exc |-> "not called"]
Ok(df) == [exc |-> "none", df |-> df]
Raise(e) == [exc |-> e]
Raised(r) == r.exc \notin {"none", "not called"}

\* ------------------------------------------------ process_coordinates
Digits == {"0", "1", "2", "3", "4", "5", "6", "7", "8", "9"}

DigitVal(c) ==
    CASE c = "0" -> 0 [] c = "1" -> 1 [] c = "2" -> 2 [] c = "3" -> 3
      [] c = "4" -> 4 [] c = "5" -> 5 [] c = "6" -> 6 [] c = "7" -> 7
      [] c = "8" -> 8 [] c = "9" -> 9

\* str.replace(',', '.'): every comma becomes a period.
StrReplace(s) == [i \in DOMAIN s |-> IF s[i] = "," THEN "." ELSE s[i]]

\* The value of a run of digits read as an integer.
RECURSIVE IntOf(_)
IntOf(ds) ==
    IF ds = <<>> THEN 0
    ELSE 10 * IntOf(SubSeq(ds, 1, Len(ds) - 1)) + DigitVal(ds[Len(ds)])

\* The value of the digits after the period, in model units (digits past
\* Scale places are below the model's resolution).
FracOf(ds) ==
    LET kept == SubSeq(ds, 1, IF Len(ds) < Scale THEN Len(ds) ELSE Scale)
    IN  IntOf(kept) * Pow(10, Scale - Len(kept))

\* pd.to_numeric(..., errors='coerce') of one text: an optional sign, digits
\* with at most one period and at least one digit; anything else is NaN.
ToNumeric(s) ==
    LET signed == Len(s) > 0 /\ s[1] \in {"-", "+"}
        body   == IF signed THEN Tail(s) ELSE s
        dots   == {i \in DOMAIN body : body[i] = "."}
        wellFormed ==
            /\ \A i \in DOMAIN body : body[i] \in Digits \cup {"."}
            /\ Cardinality(dots) <= 1
            /\ \E i \in DOMAIN body : body[i] \in Digits
        dot    == IF dots = {} THEN Len(body) + 1 ELSE CHOOSE i \in dots : TRUE
        mag    == IntOf(SubSeq(body, 1, dot - 1)) * Unit
                    + FracOf(SubSeq(body, dot + 1, Len(body)))
    IN  IF ~wellFormed THEN NaN
        ELSE IF signed /\ s[1] = "-" THEN Float(0 - mag) ELSE Float(mag)

\* df[col]: the column of a DataFrame built from records; the column exists when
\* some record has the key, and a record without the key holds NaN there.
HasColumn(df, col) == \E i \in DOMAIN df : df[i][col] # Absent

\* The .str accessor refuses a column whose values are all numbers (float64);
\* an object column (texts, mixed, or nothing but nulls) is accepted.
StrAccessorOk(df, col) ==
    \/ \E i \in DOMAIN df : IsStr(df[i][col])
    \/ \A i \in DOMAIN df : IsNull(df[i][col])

\* One cell of pd.to_numeric(df[col].str.replace(',', '.'), errors='coerce'):
\* .str.replace yields NaN for a value that is no text.
CoordOf(c) == IF IsStr(c) THEN ToNumeric(StrReplace(c.s)) ELSE NaN

WithCoords(r) ==
    [lat_str |-> r.lat_str, lng_str |-> r.lng_str,
     latitude |-> CoordOf(r.lat_str), longitude |-> CoordOf(r.lng_str)]

\* A dropna that looks at the latitude alone.
DropNaLatitudeOnly(df) == SelectSeq(df, LAMBDA r : ~IsNull(r.latitude))

\* DataFrame.dropna(subset=['latitude', 'longitude']).
DropNa(df) == SelectSeq(df, LAMBDA r : ~IsNull(r.latitude) /\ ~IsNull(r.longitude))

process_coordinates(df) ==
    IF ~HasColumn(df, "lat_str") THEN Raise("KeyError")
    ELSE IF ~StrAccessorOk(df, "lat_str") THEN Raise("AttributeError")
    ELSE IF ~HasColumn(df, "lng_str") THEN Raise("KeyError")
    ELSE IF ~StrAccessorOk(df, "lng_str") THEN Raise("AttributeError")
    ELSE Ok(DropNa([i \in DOMAIN df |-> WithCoords(df[i])]))

\* ---------------------------------------------- filter_usinas_by_region
lat_norte == <<5 * Unit, (0 - 5) * Unit>>
long_norte == <<(0 - 75) * Unit, (0 - 60) * Unit>>
lat_nordeste == <<(0 - 5) * Unit, (0 - 18) * Unit>>
long_nordeste == <<(0 - 75) * Unit, (0 - 34) * Unit>>

\* A between that leaves the right end out.
BetweenRightOpen(c, left, right) == IsFloat(c) /\ left <= c.v /\ c.v < right

\* Series.between(left, right): inclusive on both ends; NaN compares False.
Between(c, left, right) == IsFloat(c) /\ left <= c.v /\ c.v <= right

InRegion(r) ==
    \/ /\ Between(r.latitude, lat_norte[2], lat_norte[1])
       /\ Between(r.longitude, long_norte[1], long_norte[2])
    \/ /\ Between(r.latitude, lat_nordeste[2], lat_nordeste[1])
       /\ Between(r.longitude, long_nordeste[1], long_nordeste[2])

\* Comparing a text column with a number raises TypeError; all four between()
\* calls are evaluated before the masks are combined.
filter_usinas_by_region(df) ==
    IF \E i \in DOMAIN df : IsStr(df[i].latitude) \/ IsStr(df[i].longitude)
    THEN Raise("TypeError")
    ELSE Ok(SelectSeq(df, InRegion))

\* ------------------------------------------------------------ fetch_aneel
\* @retry(stop=stop_after_attempt(3), wait=wait_exponential(multiplier=1, min=2, max=10))
stop_after_attempt == 3
wait_multiplier == 1
wait_min == 2
wait_max == 10

\* What the endpoint does to one request: "ok" answers with the records;
\* "net_error" makes requests.get raise (connection, timeout) and "http_error"
\* makes raise_for_status raise, both RequestException; "malformed" is an
\* answer whose 'result' is no object, on which .get raises AttributeError.
Outcomes == {"ok", "net_error", "http_error", "malformed"}

\* One execution of fetch_aneel's body: its outcome and the st.error calls made.
\* A RequestException is caught in the body, which then returns an empty frame.
FetchBody(outcome, records) ==
    CASE outcome = "ok" -> [out |-> Ok(records), errors |-> 0]
      [] outcome \in {"net_error", "http_error"} -> [out |-> Ok(<<>>), errors |-> 1]
      [] outcome = "malformed" -> [out |-> Raise("AttributeError"), errors |-> 0]

Max(a, b) == IF a >= b THEN a ELSE b
Min(a, b) == IF a <= b THEN a ELSE b

\* wait_exponential: multiplier * 2^(attempt - 1), kept within [min, max].
WaitAfter(attempt) ==
    Max(wait_min, Min(wait_multiplier * Pow(2, attempt - 1), wait_max))

\* tenacity's loop from attempt n on: the body is called again only when it
\* raised; after the last allowed attempt RetryError is raised instead.
RECURSIVE Retrying(_, _, _)
Retrying(script, records, n) ==
    LET b == FetchBody(script[n], records)
    IN  IF ~Raised(b.out)
        THEN [out |-> b.out, attempts |-> n, errors |-> b.errors, slept |-> 0]
        ELSE IF n >= stop_after_attempt
        THEN [out |-> Raise("RetryError"), attempts |-> n, errors |-> b.errors,
              slept |-> 0]
        ELSE LET rest == Retrying(script, records, n + 1)
             IN  [out |-> rest.out, attempts |-> rest.attempts,
                  errors |-> b.errors + rest.errors,
                  slept |-> WaitAfter(n) + rest.slept]

\* fetch_aneel() against an endpoint that answers the i-th request with
\* script[i] and, when it answers, with records.
fetch_aneel(script, records) == Retrying(script, records, 1)

\* ------------------------------------------------------------ the files
NoFile == [st |-> "absent"]
\* A file that exists and that its reader raises on.
Corrupt == [st |-> "corrupt"]

Exists(f) == f.st # "absent"

\* A loader that never takes the snapshot.
SnapshotIgnored(f) == FALSE

\* The snapshot branch of a loader: the file exists and read_parquet returns.
SnapshotReadable(f) == f.st = "ok"

\* DataFrame.to_parquet: the frame stored column by column; a key a record
\* lacked is stored as a null.
Columns(df) == IF df = <<>> THEN {} ELSE DOMAIN df[1]
Stored(c) == IF c = Absent THEN NaN ELSE c
to_parquet(df) ==
    [st |-> "ok", n |-> Len(df),
     data |-> [c \in Columns(df) |-> [i \in DOMAIN df |-> Stored(df[i][c])]]]

\* pd.read_parquet of a file that deserializes: the rows put back together.
read_parquet(f) == [i \in 1..f.n |-> [c \in DOMAIN f.data |-> f.data[c][i]]]

\* What a write does: "written" replaces the file; "refused" raises and leaves
\* the file as it was; "torn" raises after the file was opened for writing.
WriteOutcomes == {"written", "refused", "torn"}

\* The I/O one call performs: requests sent, snapshot reads, source-file reads,
\* snapshot writes, st.error and st.warning calls.
NoIo == [requests |-> 0, snapReads |-> 0, srcReads |-> 0, writes |-> 0,
         errors |-> 0, warnings |-> 0]

\* ------------------------------------------------------- load_aneel_data
\* f is what the fetch_aneel() call yields if the loader makes it, wr what the
\* to_parquet call does if the loader makes it.
load_aneel_data(cache, f, wr) ==
    LET tried == [NoIo EXCEPT !.snapReads = IF Exists(cache) THEN 1 ELSE 0,
                              !.warnings = IF cache = Corrupt THEN 1 ELSE 0]
        fetched == [tried EXCEPT !.requests = f.attempts, !.errors = f.errors]
        p == process_coordinates(f.out.df)
        wrote == [fetched EXCEPT !.writes = 1]
    IN  IF SnapshotReadable(cache)
        THEN [out |-> Ok(read_parquet(cache)), cache |-> cache, io |-> tried]
        ELSE IF Raised(f.out)
        THEN [out |-> f.out, cache |-> cache, io |-> fetched]
        ELSE IF f.out.df = <<>>
        THEN [out |-> Ok(<<>>), cache |-> cache,
              io |-> [fetched EXCEPT !.errors = @ + 1]]
        ELSE IF Raised(p)
        THEN [out |-> p, cache |-> cache, io |-> fetched]
        ELSE CASE wr = "written" ->
                    [out |-> p, cache |-> to_parquet(p.df), io |-> wrote]
               [] wr = "refused" ->
                    [out |-> Raise("OSError"), cache |-> cache, io |-> wrote]
               [] wr = "torn" ->
                    [out |-> Raise("OSError"), cache |-> Corrupt, io |-> wrote]

\* --------------------------------------------------------------- pd.read_csv
\* A source file that exists is Corrupt (read_csv raises on it), or holds rows
\* of texts, an empty text for an empty cell; coords tells whether it has the
\* latitude and longitude columns at all.
Csv(rows) == [st |-> "ok", coords |-> TRUE, rows |-> rows]
CsvWithoutCoords == [st |-> "ok", coords |-> FALSE, rows |-> <<>>]

\* read_csv infers a column's type: numbers when every non-empty cell parses as
\* one, texts otherwise; an empty cell is NaN either way.
NumericColumn(rows, col) ==
    \A i \in DOMAIN rows : rows[i][col] = <<>> \/ ToNumeric(rows[i][col]) # NaN

CsvCell(rows, col, i) ==
    IF rows[i][col] = <<>> THEN NaN
    ELSE IF NumericColumn(rows, col) THEN ToNumeric(rows[i][col])
    ELSE Str(rows[i][col])

read_csv(f) ==
    IF f.st = "corrupt" THEN Raise("ParserError")
    ELSE Ok([i \in DOMAIN f.rows |->
               [Franquia |-> Str(f.rows[i].Franquia),
                latitude |-> CsvCell(f.rows, "latitude", i),
                longitude |-> CsvCell(f.rows, "longitude", i)]])

\* df.dropna(subset=['latitude', 'longitude']) of a frame read from f: KeyError
\* when the file has no such columns.
DropNaOfCsv(f, df) == IF f.coords THEN Ok(DropNa(df)) ELSE Raise("KeyError")

\* --------------------------------------------------- load_franchise_data
load_franchise_data(snap, input, wr) ==
    LET tried == [NoIo EXCEPT !.snapReads = IF Exists(snap) THEN 1 ELSE 0,
                              !.errors = IF snap = Corrupt THEN 1 ELSE 0]
        read  == [tried EXCEPT !.srcReads = 1]
        c     == read_csv(input)
        d     == DropNaOfCsv(input, c.df)
        failed == [out |-> Ok(<<>>), snap |-> snap,
                   io |-> [read EXCEPT !.errors = @ + 1]]
    IN  IF SnapshotReadable(snap)
        THEN [out |-> Ok(read_parquet(snap)), snap |-> snap, io |-> tried]
        ELSE IF ~Exists(input)
        THEN [out |-> Ok(<<>>), snap |-> snap, io |-> tried]
        ELSE IF Raised(c) THEN failed
        ELSE IF Raised(d) THEN failed
        ELSE CASE wr = "written" ->
                    [out |-> d, snap |-> to_parquet(d.df),
                     io |-> [read EXCEPT !.writes = 1]]
               [] wr = "refused" ->
                    [failed EXCEPT !.io.writes = 1]
               [] wr = "torn" ->
                    [failed EXCEPT !.io.writes = 1, !.snap = Corrupt]

\* ------------------------------------------------------- load_usina_data
\* The body under @st.cache_data: a failure inside the try is reported and
\* falls through to the "file not found" report.
load_usina_data(input) ==
    LET read == [NoIo EXCEPT !.srcReads = 1]
        c    == read_csv(input)
        d    == DropNaOfCsv(input, c.df)
        flt  == filter_usinas_by_region(d.df)
        failed == [out |-> Ok(<<>>), io |-> [read EXCEPT !.errors = 2]]
    IN  IF ~Exists(input)
        THEN [out |-> Ok(<<>>), io |-> [NoIo EXCEPT !.errors = 1]]
        ELSE IF Raised(c) THEN failed
        ELSE IF Raised(d) THEN failed
        ELSE IF Raised(flt) THEN failed
        ELSE [out |-> flt, io |-> read]

\* --------------------------------------------------------------- init_data
\* Nothing loaded, nothing memoized.
NoData == [loaded |-> FALSE]

AddIo(a, b) == [k \in DOMAIN a |-> a[k] + b[k]]

\* load_usina_data() through @st.cache_data: the body runs only when nothing
\* is memoized.
Memoize(u) ==
    [out |-> u.out, io |-> u.io, calls |-> 1,
     memo |-> [loaded |-> TRUE, df |-> u.out.df]]

CachedLoadUsina(memo, input) ==
    IF memo # NoData
    THEN [out |-> Ok(memo.df), io |-> NoIo, memo |-> memo, calls |-> 0]
    ELSE Memoize(load_usina_data(input))

\* The dict init_data returns, from what the three loaders did (a, fr, us) on
\* the disk d; calls counts the loader bodies run.
InitDataDict(d, a, fr, us) ==
    LET data == [loaded |-> TRUE, aneel |-> a.out.df, franchise |-> fr.out.df,
                 usinas |-> us.out.df]
    IN  [out |-> Ok(data), io |-> AddIo(AddIo(a.io, fr.io), us.io),
         calls |-> 2 + us.calls, memo |-> data, umemo |-> us.memo,
         disk |-> [d EXCEPT !.aneelCache = a.cache, !.franchiseData = fr.snap]]

\* The dict is built in the order 'aneel', 'franchise', 'usinas'; a registry
\* loader that raised (a) ends the call with nothing memoized.
InitDataAfterAneel(umemo, d, a, wrF) ==
    IF Raised(a.out)
    THEN [out |-> a.out, io |-> a.io, calls |-> 1, memo |-> NoData,
          umemo |-> umemo, disk |-> [d EXCEPT !.aneelCache = a.cache]]
    ELSE InitDataDict(d, a,
                      load_franchise_data(d.franchiseData, d.franchiseInput, wrF),
                      CachedLoadUsina(umemo, d.usinaInput))

\* init_data() through @st.cache_resource, on the disk d.
init_data(memo, umemo, d, f, wrA, wrF) ==
    IF memo # NoData
    THEN [out |-> Ok(memo), io |-> NoIo, calls |-> 0, memo |-> memo,
          umemo |-> umemo, disk |-> d]
    ELSE InitDataAfterAneel(umemo, d, load_aneel_data(d.aneelCache, f, wrA), wrF)

\* -------------------------------------------------------------------- main
\* folium.Marker checks its location: a coordinate that float() cannot convert
\* raises ValueError.
MarkerOk(r) ==
    /\ IsFloat(r.latitude) \/ (IsStr(r.latitude) /\ ToNumeric(r.latitude.s) # NaN)
    /\ IsFloat(r.longitude) \/ (IsStr(r.longitude) /\ ToNumeric(r.longitude.s) # NaN)

add_franchise_markers(data) ==
    IF \A i \in DOMAIN data : MarkerOk(data[i]) THEN Ok(data) ELSE Raise("ValueError")

\* The sidebar and the map, from the session's data (i.out.df) and main's own
\* franchise_data (fr): the layers whose checkbox is ticked and whose data is
\* not empty are drawn, then st_folium renders the map.
MainDraw(i, fr, ls, mk) ==
    LET drawn == [aneel |-> ls.aneel /\ i.out.df.aneel # <<>>,
                  franchise |-> ls.franchise /\ fr.out.df # <<>>,
                  usinas |-> ls.usinas /\ i.out.df.usinas # <<>>]
    IN  [out |-> IF Raised(mk) THEN mk ELSE Ok(drawn),
         io |-> AddIo(i.io, fr.io), calls |-> i.calls + 1,
         rendered |-> ~Raised(mk), sidebar |-> TRUE, session |-> i.out.df,
         memo |-> i.memo, umemo |-> i.umemo,
         disk |-> [i.disk EXCEPT !.franchiseData = fr.snap]]

MainLayers(i, fr, ls) ==
    MainDraw(i, fr, ls,
             IF ls.franchise THEN add_franchise_markers(fr.out.df) ELSE Ok(<<>>))

\* main() once the session's data is there or init_data raised (i); wrF2 is
\* what the write of main's own load_franchise_data() call does.
MainAfterInit(sess, i, ls, wrF2) ==
    IF Raised(i.out)
    THEN [out |-> i.out, io |-> i.io, calls |-> i.calls, rendered |-> FALSE,
          sidebar |-> FALSE, session |-> sess, memo |-> i.memo,
          umemo |-> i.umemo, disk |-> i.disk]
    ELSE MainLayers(i,
                    load_franchise_data(i.disk.franchiseData,
                                        i.disk.franchiseInput, wrF2),
                    ls)

\* One run of the page script with the checkboxes at ls.  sess is the session's
\* data before the run; init_data is called only when there is none.
main(sess, memo, umemo, d, ls, f, wrA, wrF, wrF2) ==
    MainAfterInit(sess,
                  IF sess = NoData
                  THEN init_data(memo, umemo, d, f, wrA, wrF)
                  ELSE [out |-> Ok(sess), io |-> NoIo, calls |-> 0, memo |-> memo,
                        umemo |-> umemo, disk |-> d],
                  ls, wrF2)

\* ------------------------------------------------------- sample inputs
\* Texts as the registry API sends them, one character per element.
TxtComma == <<"-", "1", ",", "5">>
TxtPoint == <<"4", "8", ".", "2", "5">>
TxtWord == <<"x", "1">>
TxtTwoCommas == <<"1", ",", "2", ",", "5">>

\* What a record of the API's response may hold under lat_str or lng_str.
RawCells ==
    {Str(TxtComma), Str(TxtPoint), Str(TxtWord), Str(TxtTwoCommas),
     NaN, Float(3 * Unit), Absent}

RawRows == [lat_str : RawCells, lng_str : RawCells]

\* Coordinates on, just inside and just outside the edges of the two boxes.
SampleLats ==
    {(0 - 18) * Unit - 1, (0 - 18) * Unit, (0 - 5) * Unit, (0 - 2) * Unit,
     5 * Unit, 5 * Unit + 1, 10 * Unit}
SampleLons ==
    {(0 - 75) * Unit - 1, (0 - 75) * Unit, (0 - 65) * Unit, (0 - 60) * Unit,
     (0 - 60) * Unit + 1, (0 - 34) * Unit, (0 - 34) * Unit + 1}

Point(lat, lon) == [latitude |-> Float(lat), longitude |-> Float(lon)]
GeoRows == {Point(lat, lon) : lat \in SampleLats, lon \in SampleLons}

\* Records of the registry API: both coordinates good, a latitude that does
\* not parse, and a record without the coordinate keys.
ApiGood == [lat_str |-> Str(TxtComma), lng_str |-> Str(TxtPoint)]
ApiGood2 == [lat_str |-> Str(TxtPoint), lng_str |-> Str(TxtComma)]
ApiBadLat == [lat_str |-> Str(TxtWord), lng_str |-> Str(TxtPoint)]
ApiNoKeys == [lat_str |-> Absent, lng_str |-> Absent]
ApiRows == {ApiGood, ApiGood2, ApiBadLat, ApiNoKeys}
ApiRecordSets == SeqsUpTo(ApiRows, MaxApiRows)
Scripts == [1..ScriptLen -> Outcomes]

\* Texts of the source files' cells.
TxtNeg == <<"-", "1", ".", "5">>
TxtM2 == <<"-", "2">>
TxtM65 == <<"-", "6", "5">>
Txt10 == <<"1", "0">>

CsvRow(name, lat, lon) == [Franquia |-> name, latitude |-> lat, longitude |-> lon]
\* Rows of franquias.csv: complete, without a longitude, with a latitude that
\* is no number.
FranchiseRows ==
    {CsvRow(<<"A">>, TxtNeg, TxtPoint), CsvRow(<<"B">>, TxtNeg, <<>>),
     CsvRow(<<"C">>, TxtWord, TxtPoint), CsvRow(<<"D">>, TxtM2, TxtM65)}
\* Rows of dados_com_geolocalizacao.csv: inside the North box, outside both
\* boxes, without a longitude, with a latitude that is no number.
UsinaRows ==
    {CsvRow(<<"P">>, TxtM2, TxtM65), CsvRow(<<"Q">>, Txt10, TxtM65),
     CsvRow(<<"R">>, TxtM2, <<>>), CsvRow(<<"S">>, TxtWord, TxtM65)}

SourceFiles(rows) ==
    {NoFile, Corrupt, CsvWithoutCoords} \cup {Csv(rs) : rs \in SeqsUpTo(rows, MaxCsvRows)}

AllLayers == [aneel |-> TRUE, franchise |-> TRUE, usinas |-> TRUE]

NoPage ==
    /\ session = NoData
    /\ initMemo = NoData
    /\ usinaMemo = NoData
    /\ layers = AllLayers

\* The source files a page run is tried on: missing, unreadable, without the
\* coordinate columns, the spec's scenarios, and a latitude that is no number.
PageFranchiseFiles ==
    {NoFile, Corrupt,
     Csv(<<CsvRow(<<"A">>, TxtNeg, TxtPoint), CsvRow(<<"B">>, TxtNeg, <<>>)>>),
     Csv(<<CsvRow(<<"C">>, TxtWord, TxtPoint)>>)}
PageUsinaFiles ==
    {NoFile, CsvWithoutCoords,
     Csv(<<CsvRow(<<"P">>, TxtM2, TxtM65), CsvRow(<<"Q">>, Txt10, TxtM65)>>),
     Csv(<<CsvRow(<<"S">>, TxtWord, TxtM65)>>)}

NoDisk ==
    /\ aneelCache = NoFile
    /\ franchiseData = NoFile
    /\ franchiseInput = NoFile
    /\ usinaInput = NoFile
    /\ persisted = NoRet
    /\ NoPage

\* ------------------------------------------- the functions on their own
InitFetch ==
    /\ arg \in [script : Scripts, records : {<<ApiGood>>, <<ApiGood, ApiBadLat>>}]
    /\ ret = NoRet
    /\ NoDisk

CallFetchAneel ==
    /\ ret = NoRet
    /\ ret' = fetch_aneel(arg.script, arg.records)
    /\ UNCHANGED <<arg, diskVars, persisted, pageVars>>

SpecFetch == InitFetch /\ [][CallFetchAneel]_vars

InitNorm ==
    /\ arg \in SeqsUpTo(RawRows, MaxNormRows)
    /\ ret = NoRet
    /\ NoDisk

CallProcessCoordinates ==
    /\ ret = NoRet
    /\ ret' = process_coordinates(arg)
    /\ UNCHANGED <<arg, diskVars, persisted, pageVars>>

SpecNorm == InitNorm /\ [][CallProcessCoordinates]_vars

InitFilter ==
    /\ arg \in SeqsUpTo(GeoRows, MaxFilterRows)
    /\ ret = NoRet
    /\ NoDisk

CallFilter ==
    /\ ret = NoRet
    /\ ret' = filter_usinas_by_region(arg)
    /\ UNCHANGED <<arg, diskVars, persisted, pageVars>>

SpecFilter == InitFilter /\ [][CallFilter]_vars

\* ------------------------------------------------- the registry loader
\* A call draws from its environment a fetch outcome only when it will fetch,
\* and a write outcome only for a write that can happen.
NoFetch == fetch_aneel([i \in 1..ScriptLen |-> "ok"], <<>>)
WritesIf(canWrite) == IF canWrite THEN WriteOutcomes ELSE {"written"}

CanWriteFranchise ==
    franchiseData.st # "ok" /\ franchiseInput.st = "ok" /\ franchiseInput.coords

\* Every outcome a fetch_aneel() call can have.
FetchResults == {fetch_aneel(sc, recs) : sc \in Scripts, recs \in ApiRecordSets}

InitAneel ==
    /\ arg = NoRet
    /\ ret = NoRet
    /\ NoDisk

\* One call of load_aneel_data(); arg keeps the snapshot the call found and
\* what its fetch yielded.
CallLoadAneel ==
    \E f \in IF aneelCache.st # "ok" THEN FetchResults ELSE {NoFetch} :
    \E wr \in WritesIf(aneelCache.st # "ok" /\ ~Raised(f.out) /\ f.out.df # <<>>) :
        \E r \in {load_aneel_data(aneelCache, f, wr)} :
            /\ ret' = r
            /\ aneelCache' = r.cache
            /\ arg' = [before |-> aneelCache, fetch |-> f]
            /\ UNCHANGED <<franchiseData, franchiseInput, usinaInput, persisted, pageVars>>

SpecAneel == InitAneel /\ [][CallLoadAneel]_vars

\* ------------------------------------------------ the franchise loader
InitFranchise ==
    /\ arg = NoRet
    /\ ret = NoRet
    /\ aneelCache = NoFile
    /\ franchiseData = NoFile
    /\ franchiseInput \in SourceFiles(FranchiseRows)
    /\ usinaInput = NoFile
    /\ persisted = NoRet
    /\ NoPage

\* One call of load_franchise_data(); arg keeps the snapshot the call found,
\* the source file it found (with its rows when the call read them) and what
\* its write did.
CallLoadFranchise ==
    \E wr \in WritesIf(CanWriteFranchise) :
        \E r \in {load_franchise_data(franchiseData, franchiseInput, wr)} :
            /\ ret' = r
            /\ franchiseData' = r.snap
            /\ arg' = [snap |-> franchiseData, wr |-> wr,
                       input |-> IF r.io.srcReads > 0 THEN franchiseInput
                                 ELSE [st |-> franchiseInput.st]]
            /\ persisted' = IF persisted = NoRet /\ r.snap.st = "ok"
                            THEN Ok(read_parquet(r.snap)) ELSE persisted
            /\ UNCHANGED <<aneelCache, franchiseInput, usinaInput, pageVars>>

\* Someone replaces or removes the franchise source file between two calls.
EditFranchiseInput ==
    /\ ret # NoRet
    /\ franchiseInput' \in SourceFiles(FranchiseRows) \ {franchiseInput}
    /\ UNCHANGED <<arg, ret, aneelCache, franchiseData, usinaInput, persisted, pageVars>>

SpecFranchise == InitFranchise /\ [][CallLoadFranchise \/ EditFranchiseInput]_vars

\* ------------------------------------------------------------ the page
Disk ==
    [aneelCache |-> aneelCache, franchiseData |-> franchiseData,
     franchiseInput |-> franchiseInput, usinaInput |-> usinaInput]

Init ==
    /\ arg = NoRet
    /\ ret = NoRet
    /\ aneelCache = NoFile
    /\ franchiseData = NoFile
    /\ franchiseInput \in PageFranchiseFiles
    /\ usinaInput \in PageUsinaFiles
    /\ persisted = NoRet
    /\ NoPage

\* Every outcome a fetch_aneel() call of a page run can have.
PageFetchResults ==
    {fetch_aneel(sc, recs) : sc \in Scripts,
        recs \in {<<>>, <<ApiGood>>, <<ApiGood, ApiBadLat>>, <<ApiNoKeys>>}}

\* What a page run draws from its environment.
LoadsData(sess) == sess = NoData /\ initMemo = NoData
PageFetches(sess) ==
    IF LoadsData(sess) /\ aneelCache.st # "ok" THEN PageFetchResults ELSE {NoFetch}
CanWriteAneel(sess, f) ==
    LoadsData(sess) /\ aneelCache.st # "ok" /\ ~Raised(f.out) /\ f.out.df # <<>>

\* The run of main() that a page event causes: what it did goes to ret, what
\* it left behind to the files, the memos and the session.
RunMain(trigger, sess, ls) ==
    \E f \in PageFetches(sess) :
    \E wrA \in WritesIf(CanWriteAneel(sess, f)) :
    \E wrF \in WritesIf(LoadsData(sess) /\ CanWriteFranchise) :
    \E wrF2 \in WritesIf(CanWriteFranchise) :
        \E r \in {main(sess, initMemo, usinaMemo, Disk, ls, f, wrA, wrF, wrF2)} :
            /\ ret' = [out |-> r.out, io |-> r.io, calls |-> r.calls,
                       rendered |-> r.rendered, sidebar |-> r.sidebar]
            /\ arg' = [trigger |-> trigger, hadData |-> sess # NoData]
            /\ session' = r.session
            /\ initMemo' = r.memo
            /\ usinaMemo' = r.umemo
            /\ layers' = ls
            /\ aneelCache' = r.disk.aneelCache
            /\ franchiseData' = r.disk.franchiseData
            /\ UNCHANGED <<franchiseInput, usinaInput, persisted>>

\* A browser opens the page: a new session, every checkbox ticked.
OpenPage == RunMain("open", NoData, AllLayers)

\* The user changes one checkbox of the sidebar the last run drew; the page
\* script runs again in the same session.
ToggleLayer ==
    /\ ret # NoRet
    /\ ret.sidebar
    /\ \E l \in DOMAIN layers :
         RunMain("toggle", session, [layers EXCEPT ![l] = ~@])

\* The 24 hours of a memo pass (ttl=3600*24).
ExpireMemo ==
    /\ \/ initMemo # NoData /\ initMemo' = NoData /\ UNCHANGED usinaMemo
       \/ usinaMemo # NoData /\ usinaMemo' = NoData /\ UNCHANGED initMemo
    /\ UNCHANGED <<arg, ret, diskVars, persisted, session, layers>>

Next == OpenPage \/ ToggleLayer \/ ExpireMemo

Spec == Init /\ [][Next]_vars

\* ------------------------------------------------------------- claims
IsFailure(o) == o # "ok"
IsNetworkError(o) == o = "net_error"

\* C1: fetch_aneel makes at most 3 attempts; when the endpoint fails with a
\* network error twice and then succeeds, fetch_aneel returns the successful
\* record set after exactly 3 attempts; when the endpoint fails on every
\* attempt it returns an empty record set after exactly 3 attempts.
C1_FetchAttemptBudget ==
    ret # NoRet =>
        /\ ret.attempts <= 3
        /\ ( /\ IsNetworkError(arg.script[1])
             /\ IsNetworkError(arg.script[2])
             /\ arg.script[3] = "ok" )
             => ret.out = Ok(arg.records) /\ ret.attempts = 3
        /\ (\A i \in 1..3 : IsFailure(arg.script[i]))
             => ret.out = Ok(<<>>) /\ ret.attempts = 3

\* A text parses after its commas are replaced by periods.
Parses(c) == IsStr(c) /\ ToNumeric(StrReplace(c.s)) # NaN

\* C8: process_coordinates returns without raising for every input, and its
\* output is the input rows, in order, whose lat_str and lng_str both parse
\* after the comma is replaced by a period; no output row has a null
\* coordinate.
C8_NormalizerTotalAndExact ==
    ret # NoRet =>
        /\ ~Raised(ret)
        /\ [i \in DOMAIN ret.df |-> [lat_str |-> ret.df[i].lat_str,
                                     lng_str |-> ret.df[i].lng_str]]
             = SelectSeq(arg, LAMBDA r : Parses(r.lat_str) /\ Parses(r.lng_str))
        /\ \A i \in DOMAIN ret.df :
             IsFloat(ret.df[i].latitude) /\ IsFloat(ret.df[i].longitude)

\* The rows of the North box or of the Northeast box, bounds included.
InClaimedBoxes(r) ==
    LET lat == r.latitude.v
        lon == r.longitude.v
    IN  \/ /\ (0 - 5) * Unit <= lat /\ lat <= 5 * Unit
           /\ (0 - 75) * Unit <= lon /\ lon <= (0 - 60) * Unit
        \/ /\ (0 - 18) * Unit <= lat /\ lat <= (0 - 5) * Unit
           /\ (0 - 75) * Unit <= lon /\ lon <= (0 - 34) * Unit

Has(df, r) == \E i \in DOMAIN df : df[i] = r

\* C9: filter_usinas_by_region returns exactly the rows inside the North box
\* or the Northeast box, all bounds inclusive: (5.0, -60.0) is kept, a latitude
\* just above 5.0 is dropped, and of (-2, -65) and (10, -65) only the first is
\* kept.
C9_RegionalFilterExact ==
    ret # NoRet =>
        /\ ret = Ok(SelectSeq(arg, InClaimedBoxes))
        /\ Has(arg, Point(5 * Unit, (0 - 60) * Unit))
             => Has(ret.df, Point(5 * Unit, (0 - 60) * Unit))
        /\ \A i \in DOMAIN ret.df : ret.df[i].latitude.v <= 5 * Unit
        /\ Has(arg, Point((0 - 2) * Unit, (0 - 65) * Unit))
             => Has(ret.df, Point((0 - 2) * Unit, (0 - 65) * Unit))
        /\ ~Has(ret.df, Point(10 * Unit, (0 - 65) * Unit))

\* The spec's scenario: of (-2, -65) and (10, -65) the filter kept the first.
C9_Witness ==
    /\ arg = <<Point((0 - 2) * Unit, (0 - 65) * Unit),
               Point(10 * Unit, (0 - 65) * Unit)>>
    /\ ret = Ok(<<Point((0 - 2) * Unit, (0 - 65) * Unit)>>)

\* The fetched rows whose two coordinate texts parse, as the snapshot holds them.
Usable(df) == SelectSeq(df, LAMBDA r : Parses(r.lat_str) /\ Parses(r.lng_str))
Called == ret # NoRet
Fetched == Called /\ ret.io.requests > 0

C10_NoEmptySnapshot ==
    aneelCache.st = "ok" => aneelCache.n >= 1

\* C3: load_franchise_data called with no readable snapshot and the source
\* file absent surfaces a user-visible error and returns an empty record set.
C3_MissingSourceSurfacesError ==
    (Called /\ arg.snap.st # "ok" /\ ~Exists(arg.input)) =>
        /\ ret.out = Ok(<<>>)
        /\ ret.io.errors >= 1

\* The source rows that have both a latitude and a longitude.
Complete(rows) == SelectSeq(rows, LAMBDA r : r.latitude # <<>> /\ r.longitude # <<>>)
\* A loaded cell holds what the source cell said.
Holds(c, txt) == (IsFloat(c) /\ c = ToNumeric(txt)) \/ (IsStr(c) /\ c.s = txt)
SameRows(df, rows) ==
    /\ Len(df) = Len(rows)
    /\ \A i \in DOMAIN df :
         /\ df[i].Franquia = Str(rows[i].Franquia)
         /\ Holds(df[i].latitude, rows[i].latitude)
         /\ Holds(df[i].longitude, rows[i].longitude)

\* C6 as stated: with no snapshot and a source file present (one that reads),
\* the call returns exactly the source rows that have both coordinates and
\* persists a snapshot of them; every later call returns those rows from the
\* snapshot without reading the source file.
C6_Original ==
    /\ (Called /\ arg.snap = NoFile /\ arg.input.st = "ok" /\ arg.input.coords) =>
         /\ ~Raised(ret.out)
         /\ SameRows(ret.out.df, Complete(arg.input.rows))
         /\ franchiseData.st = "ok"
         /\ SameRows(read_parquet(franchiseData), Complete(arg.input.rows))
    /\ (Called /\ arg.snap.st = "ok") =>
         /\ ret.out = Ok(read_parquet(arg.snap))
         /\ ret.io.srcReads = 0

\* C6 amended: with no snapshot and a source file that reads, a call whose
\* snapshot write succeeds returns exactly the source rows that have both
\* coordinates and persists a snapshot of them (a call whose write fails
\* returns an empty set and leaves no readable snapshot); once a snapshot is
\* persisted, every later call returns those same rows from the snapshot,
\* reads no source file and writes nothing, whatever became of the source.
C6_LoadThenReload ==
    /\ (Called /\ arg.snap = NoFile /\ arg.input.st = "ok" /\ arg.input.coords) =>
         IF arg.wr = "written"
         THEN /\ ~Raised(ret.out)
              /\ SameRows(ret.out.df, Complete(arg.input.rows))
              /\ franchiseData.st = "ok"
              /\ SameRows(read_parquet(franchiseData), Complete(arg.input.rows))
         ELSE ret.out = Ok(<<>>) /\ franchiseData.st # "ok"
    /\ persisted # NoRet =>
         /\ franchiseData.st = "ok"
         /\ read_parquet(franchiseData) = persisted.df
         /\ ret.out = persisted
         /\ arg.snap.st = "ok" =>
              ret.io.srcReads = 0 /\ ret.io.writes = 0 /\ ret.io.snapReads = 1

\* A reload served rows from the snapshot after the source file it was built
\* from had been removed.
C6_Witness ==
    /\ persisted # NoRet
    /\ Len(persisted.df) >= 1
    /\ arg.snap.st = "ok"
    /\ arg.input = NoFile
    /\ ret.io.snapReads = 1
    /\ ret.out = persisted

\* C2: no failure of a loader propagates out of init_data or the loaders, and
\* main always reaches the map render step.
C2_FailuresNeverHaltRender ==
    Called => ~Raised(ret.out) /\ ret.rendered

\* C4: in a session whose data is loaded, the re-render that a checkbox change
\* causes invokes no dataset loader and performs no network request, no
\* snapshot read and no source-file read.
C4_ToggleDoesNoDataWork ==
    (Called /\ arg.trigger = "toggle" /\ arg.hadData) =>
        /\ ret.calls = 0
        /\ ret.io.requests = 0
        /\ ret.io.snapReads = 0
        /\ ret.io.srcReads = 0

Numeric(df) ==
    \A i \in DOMAIN df : IsFloat(df[i].latitude) /\ IsFloat(df[i].longitude)

\* C7: every record set the three loaders return holds only rows whose
\* latitude and longitude are both present, non-null and numeric.
C7_LoadedDataNumeric ==
    session # NoData =>
        Numeric(session.aneel) /\ Numeric(session.franchise) /\ Numeric(session.usinas)

====
